---- MODULE Spec2Model ----
(***************************************************************************)
(* Model of chairs-planner.py: Plan (a ragged grid of characters),         *)
(* Plan.find_rooms (room-name extraction and erasure), Plan.find_chairs    *)
(* (breadth-first flood fill) and the loop of main that runs find_chairs   *)
(* for every room and accumulates the total.                               *)
(*                                                                         *)
(* A character is a one-character string; a row is a sequence of           *)
(* characters; the plan is a sequence of rows.  Coordinates are 0-based as *)
(* in the program; TLA+ sequences are 1-based, so cell (x, y) of the plan  *)
(* is plan[y + 1][x + 1].                                                  *)
(*                                                                         *)
(* An input may hold the character of the visited sentinel; the program    *)
(* then reads such a cell as already visited.                              *)
(***************************************************************************)
EXTENDS Integers, Sequences, FiniteSets, TLC

VARIABLES lines, plan, rooms, total, pc, calls, returned, err, idx, q,
          appendLog, visitLog, cur, allVisits, access

vars == <<lines, plan, rooms, total, pc, calls, returned, err, idx, q,
          appendLog, visitLog, cur, allVisits, access>>

(***************************************************************************)
(* lines      the input lines as read; never changed                       *)
(* plan       Plan.plan, the grid the two passes mutate                    *)
(* rooms      Plan.rooms                                                   *)
(* total      the tally of main's pseudo room 'total'                      *)
(* pc         position of the run: "start", "located" (between two         *)
(*            find_chairs calls), "filling" (inside find_chairs), "done",  *)
(*            "failed" (find_rooms raised)                                 *)
(* calls      number of find_rooms calls made                              *)
(* returned   the value of the last find_rooms call that returned          *)
(* err        the exception find_rooms raised, NoErr if none               *)
(* idx        number of rooms whose find_chairs has returned               *)
(* q          the queue of the running find_chairs                         *)
(* appendLog  every coordinate put on q in the current find_chairs run     *)
(* visitLog   every coordinate processed (not skipped) in the current run  *)
(* cur        1-based index in rooms of the room the running find_chairs   *)
(*            was called for, 0 before the first run                       *)
(* allVisits  every coordinate processed in any find_chairs run so far     *)
(* access     the last direct _get / _set call: its arguments, the grid    *)
(*            before it and, for _get, the value returned                  *)
(***************************************************************************)

(***************************************************************************)
(* Bounds of the model.                                                    *)
(***************************************************************************)
MaxRows == 2

MaxCalls == 2

(***************************************************************************)
(* Symbol alphabet (module constants of the program).                      *)
(***************************************************************************)
CHAIR_TYPES == <<"W", "P", "S", "C">>

WALL_TYPES == <<"+", "-", "|", "\\", "/", "\n">>

VISITED == "X"

None == "None"

Range(s) == {s[i] : i \in DOMAIN s}

ChairSet == Range(CHAIR_TYPES)

WallSet == Range(WALL_TYPES)

\* whitespace removed by str.strip(), restricted to the characters of the model
Whitespace == {" ", "\n"}

\* code point of a character: the order Python compares strings by
Ord(c) ==
  CASE c = "\n" -> 10
    [] c = " " -> 32
    [] c = "(" -> 40
    [] c = ")" -> 41
    [] c = "+" -> 43
    [] c = "-" -> 45
    [] c = "/" -> 47
    [] c = "A" -> 65
    [] c = "B" -> 66
    [] c = "C" -> 67
    [] c = "P" -> 80
    [] c = "S" -> 83
    [] c = "W" -> 87
    [] c = "X" -> 88
    [] c = "\\" -> 92
    [] c = "|" -> 124

(***************************************************************************)
(* Python slices of a sequence, 0-based, clamped to the length.            *)
(***************************************************************************)
Min2(a, b) == IF a < b THEN a ELSE b

\* s[:n]
Take(s, n) == SubSeq(s, 1, Min2(n, Len(s)))

\* s[n:]
Drop(s, n) == SubSeq(s, n + 1, Len(s))

\* ' ' * n
Spaces(n) == [i \in 1..n |-> " "]

(***************************************************************************)
(* Room                                                                    *)
(***************************************************************************)
ZeroChairs == [t \in ChairSet |-> 0]

Room(name, x, y) == [name |-> name, x |-> x, y |-> y, chairs |-> ZeroChairs]

(***************************************************************************)
(* Plan._get / Plan._set                                                   *)
(***************************************************************************)
InBounds(p, x, y) == 0 <= y /\ y < Len(p) /\ 0 <= x /\ x < Len(p[y + 1])

Get(p, x, y) == IF InBounds(p, x, y) THEN p[y + 1][x + 1] ELSE None

SetUnchecked(p, x, y, value) ==
  IF 0 <= y /\ y < Len(p)
    THEN [p EXCEPT ![y + 1] = Take(p[y + 1], x) \o <<value>> \o Drop(p[y + 1], x + 1)]
    ELSE p

SetInsert(p, x, y, value) ==
  IF InBounds(p, x, y)
    THEN [p EXCEPT ![y + 1] = Take(p[y + 1], x) \o <<value>> \o Drop(p[y + 1], x)]
    ELSE p

\* "if 0 <= y < len(self.plan) and 0 <= x < len(self.plan[y]):
\*      self.plan[y] = self.plan[y][:x] + value + self.plan[y][x + 1:]"
Set(p, x, y, value) ==
  IF InBounds(p, x, y)
    THEN [p EXCEPT ![y + 1] = Take(p[y + 1], x) \o <<value>> \o Drop(p[y + 1], x + 1)]
    ELSE p

(***************************************************************************)
(* re.finditer(pattern, line) for the pattern "open parenthesis, any run   *)
(* of characters other than a close parenthesis, close parenthesis": the   *)
(* non-overlapping matches, left to right.                                 *)
(* A match starts at the first '(' at or after the scan position           *)
(* that has a ')' somewhere after it and ends at the first ')' after that  *)
(* '('; the scan resumes after the match.  start/end are Python's          *)
(* match.start()/match.end() (0-based, end exclusive); inner is group(1).  *)
(***************************************************************************)
FirstAt(line, c, from) ==
  LET hits == {i \in (from + 1)..Len(line) : line[i] = c}
  IN  IF hits = {} THEN 0 ELSE CHOOSE i \in hits : \A j \in hits : i <= j

RECURSIVE Matches(_, _)
Matches(line, from) ==
  LET s == FirstAt(line, "(", from)
      e == IF s = 0 THEN 0 ELSE FirstAt(line, ")", s)
  IN  IF s = 0 \/ e = 0
        THEN <<>>
        ELSE <<[start |-> s - 1, end |-> e, inner |-> SubSeq(line, s + 1, e - 1)]>>
             \o Matches(line, e)

(***************************************************************************)
(* str.strip()                                                             *)
(***************************************************************************)
RECURSIVE LStrip(_)
LStrip(s) ==
  IF s # <<>> /\ Head(s) \in Whitespace THEN LStrip(Tail(s)) ELSE s

RECURSIVE RStrip(_)
RStrip(s) ==
  IF s # <<>> /\ s[Len(s)] \in Whitespace THEN RStrip(SubSeq(s, 1, Len(s) - 1)) ELSE s

StripNone(s) == s

Strip(s) == RStrip(LStrip(s))

(***************************************************************************)
(* Plan.find_rooms                                                         *)
(*                                                                         *)
(* found is the dict of the program in insertion order: a sequence of      *)
(* [name, pos] with pos = <<row, start>>.  An error is a record: kind,     *)
(* the name, at (the pos of the token being examined when the exception is *)
(* raised) and reported (the positions interpolated into the message).     *)
(***************************************************************************)
NoErr == [kind |-> "none", name |-> <<>>, at |-> <<>>, reported |-> <<>>]

\* RuntimeError(f'Empty room name at {pos}')
EmptyErr(pos) == [kind |-> "empty", name |-> <<>>, at |-> pos, reported |-> <<pos>>]

\* RuntimeError(f'Duplicate room name {name}, initially defined at {found[name]}')
DupErr(name, pos, orig) ==
  [kind |-> "duplicate", name |-> name, at |-> pos, reported |-> <<orig>>]

IsEmptyNever(name) == FALSE

\* name == ''
IsEmpty(name) == name = <<>>

\* name in found
NameIn(found, name) == \E i \in DOMAIN found : found[i].name = name

\* found[name]
Lookup(found, name) == found[CHOOSE i \in DOMAIN found : found[i].name = name].pos

EraseNothing(replaced, line, start, end) == line

EraseFromLine(replaced, line, start, end) ==
  Take(line, start) \o Spaces(end - start) \o Drop(line, end)

\* the row with one more token blanked
Erase(replaced, line, start, end) ==
  (IF replaced # <<>> THEN Take(replaced, start) ELSE Take(line, start))
    \o Spaces(end - start) \o Drop(line, end)

\* the body of the loop over the matches of one row, from match i on
RECURSIVE ScanLine(_, _, _, _, _)
ScanLine(line, row, ms, i, st) ==
  IF i > Len(ms)
    THEN st
    ELSE LET m == ms[i]
             name == Strip(m.inner)
             pos == <<row, m.start>>
         IN  IF IsEmpty(name)
               THEN [st EXCEPT !.err = EmptyErr(pos)]
               ELSE IF NameIn(st.found, name)
                 THEN [st EXCEPT !.err = DupErr(name, pos, Lookup(st.found, name))]
                 ELSE ScanLine(line, row, ms, i + 1,
                        [found |-> Append(st.found, [name |-> name, pos |-> pos]),
                         replaced |-> Erase(st.replaced, line, m.start, m.end),
                         err |-> st.err])

WriteBackNever(line, st) == line

WriteBackPerMatch(line, st) == IF st.replaced # <<>> THEN st.replaced ELSE line

\* "if replaced: self.plan[row] = replaced", which an exception raised inside
\* the loop over the matches never reaches
WriteBack(line, st) ==
  IF st.err.kind # "none"
    THEN line
    ELSE IF st.replaced # <<>> THEN st.replaced ELSE line

\* the loop over the rows, from row on (0-based)
RECURSIVE ScanRows(_, _, _)
ScanRows(p, row, found) ==
  IF row >= Len(p)
    THEN [plan |-> p, found |-> found, err |-> NoErr]
    ELSE LET line == p[row + 1]
             st == ScanLine(line, row, Matches(line, 0), 1,
                            [found |-> found, replaced |-> <<>>, err |-> NoErr])
             p1 == [p EXCEPT ![row + 1] = WriteBack(line, st)]
         IN  IF st.err.kind # "none"
               THEN [plan |-> p1, found |-> st.found, err |-> st.err]
               ELSE ScanRows(p1, row + 1, st.found)

\* Python's order on strings: lexicographic by code point
RECURSIVE NameLess(_, _)
NameLess(a, b) ==
  IF b = <<>> THEN FALSE
  ELSE IF a = <<>> THEN TRUE
  ELSE IF Ord(Head(a)) # Ord(Head(b)) THEN Ord(Head(a)) < Ord(Head(b))
  ELSE NameLess(Tail(a), Tail(b))

ItemLessByPosition(a, b) ==
  \/ a.pos[1] < b.pos[1]
  \/ a.pos[1] = b.pos[1] /\ a.pos[2] < b.pos[2]

\* Python's order on the tuples (name, (y, x))
ItemLess(a, b) ==
  \/ NameLess(a.name, b.name)
  \/ /\ a.name = b.name
     /\ \/ a.pos[1] < b.pos[1]
        \/ a.pos[1] = b.pos[1] /\ a.pos[2] < b.pos[2]

\* sorted(found.items())
RECURSIVE SortedItems(_)
SortedItems(S) ==
  IF S = {}
    THEN <<>>
    ELSE LET m == CHOOSE a \in S : \A b \in S \ {a} : ItemLess(a, b)
         IN  <<m>> \o SortedItems(S \ {m})

MakeRoomsInside(found) ==
  LET items == SortedItems(Range(found))
  IN  [i \in DOMAIN items |-> Room(items[i].name, items[i].pos[2] + 1, items[i].pos[1])]

\* for name, (y, x) in sorted(found.items()): Room(name, x, y)
MakeRooms(found) ==
  LET items == SortedItems(Range(found))
  IN  [i \in DOMAIN items |-> Room(items[i].name, items[i].pos[2], items[i].pos[1])]

ReturnNew(all, new) == new

\* return self.rooms
ReturnValue(all, new) == all

RegisteredEager(old, new, e) == old \o new

\* "for name, pos in sorted(found.items()): self.rooms.append(...)" is reached
\* only when the scan raised nothing
Registered(old, new, e) == IF e.kind = "none" THEN old \o new ELSE old

FindRooms ==
  /\ pc \in {"start", "located"}
  /\ idx = 0
  /\ calls < MaxCalls
  /\ LET r == ScanRows(plan, 0, <<>>)
         new == MakeRooms(r.found)
     IN  /\ plan' = r.plan
         /\ calls' = calls + 1
         /\ rooms' = Registered(rooms, new, r.err)
         /\ IF r.err.kind = "none"
              THEN /\ returned' = ReturnValue(rooms \o new, new)
                   /\ pc' = "located"
                   /\ err' = err
              ELSE /\ err' = r.err
                   /\ pc' = "failed"
                   /\ UNCHANGED returned
  /\ UNCHANGED <<lines, total, idx, q, appendLog, visitLog, cur, allVisits, access>>

(***************************************************************************)
(* Plan.find_chairs, one iteration of its while loop per step               *)
(***************************************************************************)
DirectionsDownRight == <<<<0, 1>>, <<1, 0>>>>

directions == <<<<0, 1>>, <<0, -1>>, <<1, 0>>, <<-1, 0>>>>

SkipNever(cell) == FALSE

\* "if cell == VISITED: continue"
Skip(cell) == cell = VISITED

TallyOnlyW(chairs, cell) ==
  IF cell = "W" THEN [chairs EXCEPT ![cell] = @ + 1] ELSE chairs

\* "if cell in CHAIR_TYPES: room.chairs[cell] += 1"
Tally(chairs, cell) ==
  IF cell \in ChairSet THEN [chairs EXCEPT ![cell] = @ + 1] ELSE chairs

EnqueueableThroughWalls(cell) == cell # None /\ cell # VISITED

\* "if cell and (cell != VISITED) and (cell not in WALL_TYPES)"
Enqueueable(cell) == cell # None /\ cell # VISITED /\ cell \notin WallSet

\* the neighbours of (x, y) appended to the queue, in the order of directions
Neighbours(p, x, y) ==
  LET cand == [i \in DOMAIN directions |-> <<x + directions[i][1], y + directions[i][2]>>]
  IN  SelectSeq(cand, LAMBDA c : Enqueueable(Get(p, c[1], c[2])))

DiscardKeep(queue) == queue

\* the queue after "x, y = q.popleft()" when the cell is skipped
Discard(queue) == Tail(queue)

MarkNothing(p, x, y) == p

\* "self._set(x, y, VISITED)"
Mark(p, x, y) == Set(p, x, y, VISITED)

\* q = deque([(room.x, room.y)])
StartFill ==
  /\ pc = "located"
  /\ idx < Len(rooms)
  /\ q' = <<<<rooms[idx + 1].x, rooms[idx + 1].y>>>>
  /\ appendLog' = <<<<rooms[idx + 1].x, rooms[idx + 1].y>>>>
  /\ visitLog' = <<>>
  /\ cur' = idx + 1
  /\ pc' = "filling"
  /\ UNCHANGED <<lines, plan, rooms, total, calls, returned, err, idx, allVisits, access>>

FillStep ==
  /\ pc \in {"filling", "refilling"}
  /\ q # <<>>
  /\ LET x == Head(q)[1]
         y == Head(q)[2]
         cell == Get(plan, x, y)
     IN  IF Skip(cell)
           THEN /\ q' = Discard(q)
                /\ UNCHANGED <<plan, rooms, returned, appendLog, visitLog, allVisits>>
           ELSE LET p1 == Mark(plan, x, y)
                    more == Neighbours(p1, x, y)
                IN  /\ rooms' = [rooms EXCEPT ![cur].chairs = Tally(@, cell)]
                    \* the list find_rooms returned is self.rooms itself
                    /\ returned' = IF calls >= 1 THEN rooms' ELSE returned
                    /\ plan' = p1
                    /\ q' = Tail(q) \o more
                    /\ appendLog' = appendLog \o more
                    /\ visitLog' = Append(visitLog, <<x, y>>)
                    /\ allVisits' = Append(allVisits, <<x, y>>)
  /\ UNCHANGED <<lines, total, pc, calls, err, idx, cur, access>>

(***************************************************************************)
(* main: the loop over the rooms                                           *)
(***************************************************************************)
AccumulateOverwrite(tot, chairs) == chairs

\* "for type, count in room.chairs.items(): total.chairs[type] += count"
Accumulate(tot, chairs) == [t \in ChairSet |-> tot[t] + chairs[t]]

\* find_chairs returns (the queue is empty) and main accumulates the total
FinishFill ==
  /\ pc = "filling"
  /\ q = <<>>
  /\ total' = Accumulate(total, rooms[cur].chairs)
  /\ idx' = idx + 1
  /\ pc' = "located"
  /\ UNCHANGED <<lines, plan, rooms, calls, returned, err, q, appendLog, visitLog,
                 cur, allVisits, access>>

\* the loop over the rooms is exhausted: main prints and returns
EndMain ==
  /\ pc = "located"
  /\ idx = Len(rooms)
  /\ pc' = "done"
  /\ UNCHANGED <<lines, plan, rooms, total, calls, returned, err, idx, q, appendLog, visitLog,
                 cur, allVisits, access>>

(***************************************************************************)
(* Input plans.  A row is a left part followed by a right part.            *)
(***************************************************************************)
Lefts ==
  { <<>>,
    <<"(", "A", ")">>,
    <<"(", " ", "A", ")">>,
    <<"(", "B", ")">>,
    <<"(", "W", ")">>,
    <<"(", "-", ")">> }

Rights ==
  { <<"W">>,
    <<"(", " ", ")">>,
    <<"|", "(", "B", ")", "P">>,
    <<"X", "P", "\n">> }

Rows == {l \o r : l \in Lefts, r \in Rights}

\* the plan of the end-to-end example: "+---+", "|(A)|", "+---+"
ExamplePlan ==
  << <<"+", "-", "-", "-", "+">>,
     <<"|", "(", "A", ")", "|">>,
     <<"+", "-", "-", "-", "+">> >>

\* two rooms separated by a wall, each with one chair of every type
ExampleTwoRooms ==
  << <<"(", "A", ")", "W", "P", "S", "C", "|", "(", "B", ")", "W", "P", "S", "C">> >>

\* names of more than one character, one a prefix of another
ExampleNames ==
  << <<"(", "B", ")", "(", "A", "B", ")">>,
     <<"(", "A", ")">> >>

Plans ==
  UNION {[1..n -> Rows] : n \in 0..MaxRows}
    \cup {ExamplePlan, ExampleTwoRooms, ExampleNames}

\* no direct _get / _set call has been made
NoAccess == [op |-> "none", x |-> 0, y |-> 0, value |-> None, got |-> None, before |-> <<>>]

Init ==
  /\ lines \in Plans
  /\ plan = lines
  /\ rooms = <<>>
  /\ total = ZeroChairs
  /\ pc = "start"
  /\ calls = 0
  /\ returned = <<>>
  /\ err = NoErr
  /\ idx = 0
  /\ q = <<>>
  /\ appendLog = <<>>
  /\ visitLog = <<>>
  /\ cur = 0
  /\ allVisits = <<>>
  /\ access = NoAccess

Next == FindRooms \/ StartFill \/ FillStep \/ FinishFill \/ EndMain

Spec == Init /\ [][Next]_vars

(***************************************************************************)
(* find_chairs called directly for a room with an arbitrary origin, in     *)
(* bounds or not, on a grid that may hold walls, chairs and visited cells. *)
(* The loop is sequential code: a step that can be taken is taken.         *)
(***************************************************************************)
FillRows ==
  { <<" ", " ">>,
    <<" ", "W">>,
    <<"W", "|", "P">>,
    <<"P", "X", " ">>,
    <<"-">> }

FillGrids == UNION {[1..n -> FillRows] : n \in 0..MaxRows}

Widest(S) == CHOOSE n \in {Len(r) : r \in S} : \A r \in S : Len(r) <= n

InitFill ==
  /\ lines \in FillGrids
  /\ plan = lines
  /\ \E x \in -1..Widest(FillRows), y \in -1..Len(lines) : rooms = <<Room(<<"A">>, x, y)>>
  /\ total = ZeroChairs
  /\ pc = "located"
  /\ calls = 0
  /\ returned = <<>>
  /\ err = NoErr
  /\ idx = 0
  /\ q = <<>>
  /\ appendLog = <<>>
  /\ visitLog = <<>>
  /\ cur = 0
  /\ allVisits = <<>>
  /\ access = NoAccess

NextFill == StartFill \/ FillStep \/ FinishFill \/ EndMain

SpecFill == InitFill /\ [][NextFill]_vars /\ WF_vars(NextFill)

(***************************************************************************)
(* find_chairs called once more for a room whose find_chairs has already   *)
(* returned, between two iterations of main's loop or after the last one.  *)
(***************************************************************************)
StartRefill ==
  /\ pc = "located"
  /\ \E i \in 1..idx :
       /\ cur' = i
       /\ q' = <<<<rooms[i].x, rooms[i].y>>>>
       /\ appendLog' = <<<<rooms[i].x, rooms[i].y>>>>
  /\ visitLog' = <<>>
  /\ pc' = "refilling"
  /\ UNCHANGED <<lines, plan, rooms, total, calls, returned, err, idx, allVisits, access>>

\* the repeated find_chairs returns; nothing is accumulated for it
FinishRefill ==
  /\ pc = "refilling"
  /\ q = <<>>
  /\ pc' = "located"
  /\ UNCHANGED <<lines, plan, rooms, total, calls, returned, err, idx, q, appendLog,
                 visitLog, cur, allVisits, access>>

NextRerun == Next \/ StartRefill \/ FinishRefill

SpecRerun == Init /\ [][NextRerun]_vars

(***************************************************************************)
(* Plan._get and Plan._set called directly, once, with arbitrary           *)
(* coordinates on a grid that may be ragged or empty.                      *)
(***************************************************************************)
CellValues == {VISITED, "-"}

GetCell ==
  /\ pc = "start"
  /\ \E x \in -1..Widest(FillRows), y \in -1..Len(plan) :
       access' = [op |-> "get", x |-> x, y |-> y, value |-> None,
                  got |-> Get(plan, x, y), before |-> plan]
  /\ pc' = "accessed"
  /\ UNCHANGED <<lines, plan, rooms, total, calls, returned, err, idx, q, appendLog,
                 visitLog, cur, allVisits>>

\* _set(x, y, value), then the cell is read back with _get(x, y)
SetCell ==
  /\ pc = "start"
  /\ \E x \in -1..Widest(FillRows), y \in -1..Len(plan), value \in CellValues :
       /\ plan' = Set(plan, x, y, value)
       /\ access' = [op |-> "set", x |-> x, y |-> y, value |-> value,
                      got |-> Get(plan', x, y), before |-> plan]
  /\ pc' = "accessed"
  /\ UNCHANGED <<lines, rooms, total, calls, returned, err, idx, q, appendLog,
                 visitLog, cur, allVisits>>

InitCell ==
  /\ lines \in FillGrids
  /\ plan = lines
  /\ rooms = <<>>
  /\ total = ZeroChairs
  /\ pc = "start"
  /\ calls = 0
  /\ returned = <<>>
  /\ err = NoErr
  /\ idx = 0
  /\ q = <<>>
  /\ appendLog = <<>>
  /\ visitLog = <<>>
  /\ cur = 0
  /\ allVisits = <<>>
  /\ access = NoAccess

NextCell == GetCell \/ SetCell

SpecCell == InitCell /\ [][NextCell]_vars

(***************************************************************************)
(* Definitions the properties are stated with.  They describe the input    *)
(* (lines) declaratively and do not use the scanning or the queue.         *)
(***************************************************************************)
\* s without its leading and trailing whitespace, stated on the indices
Trimmed(s) ==
  LET keep == {i \in DOMAIN s : s[i] \notin Whitespace}
  IN  IF keep = {}
        THEN <<>>
        ELSE SubSeq(s, CHOOSE i \in keep : \A k \in keep : i <= k,
                       CHOOSE j \in keep : \A k \in keep : k <= j)

\* the name tokens of the input in scan order: rows top to bottom, left to
\* right within a row
RECURSIVE TokensFrom(_, _)
TokensFrom(ls, r) ==
  IF r > Len(ls)
    THEN <<>>
    ELSE LET ms == Matches(ls[r], 0)
         IN  [i \in DOMAIN ms |->
                [pos |-> <<r - 1, ms[i].start>>, end |-> ms[i].end,
                 inner |-> ms[i].inner, name |-> Trimmed(ms[i].inner)]]
             \o TokensFrom(ls, r + 1)

Tokens == TokensFrom(lines, 1)

\* the input with every token span blanked
Erased ==
  [r \in DOMAIN lines |->
     [c \in DOMAIN lines[r] |->
        IF \E m \in Range(Matches(lines[r], 0)) : m.start < c /\ c <= m.end
          THEN " "
          ELSE lines[r][c]]]

\* token j of toks repeats the name of an earlier token
Repeats(toks, j) == \E i \in 1..(j - 1) : toks[i].name = toks[j].name

\* the first token of toks with the name of token j
Original(toks, j) ==
  CHOOSE i \in 1..j : /\ toks[i].name = toks[j].name
                      /\ \A k \in 1..(i - 1) : toks[k].name # toks[j].name

Bad(toks, j) == toks[j].name = <<>> \/ Repeats(toks, j)

\* the first token in scan order with an empty or repeated name, 0 if none
FirstBad(toks) ==
  IF \E j \in DOMAIN toks : Bad(toks, j)
    THEN CHOOSE j \in DOMAIN toks : Bad(toks, j) /\ \A k \in 1..(j - 1) : ~Bad(toks, k)
    ELSE 0

\* the first token that repeats a non-empty name, 0 if none
FirstRepeat(toks) ==
  IF \E j \in DOMAIN toks : toks[j].name # <<>> /\ Repeats(toks, j)
    THEN CHOOSE j \in DOMAIN toks :
           /\ toks[j].name # <<>> /\ Repeats(toks, j)
           /\ \A k \in 1..(j - 1) : ~(toks[k].name # <<>> /\ Repeats(toks, k))
    ELSE 0

Cells(p) == UNION {{<<c - 1, r - 1>> : c \in DOMAIN p[r]} : r \in DOMAIN p}

At(p, xy) == Get(p, xy[1], xy[2])

\* an open cell: in bounds, no wall and not (already) the visited sentinel
Open(p, xy) == At(p, xy) # None /\ At(p, xy) # VISITED /\ At(p, xy) \notin WallSet

Adjacent(a, b) ==
  \/ a[1] = b[1] /\ (a[2] = b[2] + 1 \/ b[2] = a[2] + 1)
  \/ a[2] = b[2] /\ (a[1] = b[1] + 1 \/ b[1] = a[1] + 1)

RECURSIVE Grow(_, _)
Grow(p, S) ==
  LET more == {xy \in Cells(p) \ S : Open(p, xy) /\ \E s \in S : Adjacent(s, xy)}
  IN  IF more = {} THEN S ELSE Grow(p, S \cup more)

\* the cells joined to xy by a path of orthogonally adjacent open cells
Region(p, xy) == Grow(p, {xy})

CountIn(p, S, t) == Cardinality({xy \in S : At(p, xy) = t})

Origin(i) == <<rooms[i].x, rooms[i].y>>

AllRegions(p) == UNION {Region(p, Origin(i)) : i \in DOMAIN rooms}

Occurrences(log, xy) == Cardinality({i \in DOMAIN log : log[i] = xy})

(***************************************************************************)
(* C1  Per-room tallies and the total after the whole run.                 *)
(***************************************************************************)
\* C1 as stated: after find_rooms and find_chairs for every room, every
\* room's tally for every category is the number of cells of that category
\* (in the erased grid) joined to the room's origin by open cells, and each
\* such chair counts once toward the total.
C1_EveryRoomCountsItsRegion ==
  pc = "done" =>
    LET E == Erased
        all == AllRegions(E)
    IN  /\ \A i \in DOMAIN rooms :
             LET reg == Region(E, Origin(i))
             IN  \A t \in ChairSet : rooms[i].chairs[t] = CountIn(E, reg, t)
        /\ \A t \in ChairSet : total[t] = CountIn(E, all, t)

\* C1 amended: the tally is the number of chairs of the room's open region
\* for the first room (in the returned order) whose origin lies in that
\* region and zero for every later room of the same region; every chair of a
\* region that holds a room's origin counts exactly once toward the total,
\* and no other chair is counted.
C1_FirstRoomCountsItsRegion ==
  pc = "done" =>
    LET E == Erased
        all == AllRegions(E)
    IN  /\ \A i \in DOMAIN rooms :
             LET reg == Region(E, Origin(i))
             IN  \A t \in ChairSet :
                   rooms[i].chairs[t] =
                     IF \E j \in 1..(i - 1) : Origin(j) \in reg
                       THEN 0
                       ELSE CountIn(E, reg, t)
        /\ \A t \in ChairSet : total[t] = CountIn(E, all, t)

\* two rooms in regions separated by a wall, each with its own chair
C1_Witness ==
  /\ pc = "done"
  /\ Len(rooms) = 2
  /\ Origin(1) \notin Region(Erased, Origin(2))
  /\ rooms[1].chairs["W"] = 1 /\ rooms[1].chairs["P"] = 0
  /\ rooms[2].chairs["P"] = 1 /\ rooms[2].chairs["W"] = 0
  /\ total["W"] = 1 /\ total["P"] = 1

(***************************************************************************)
(* C2  The origin of a room.                                               *)
(***************************************************************************)
\* C2 as stated: a room's origin is the column after the opening parenthesis
\* of its token, on the token's row; the example plan gives room A the
\* origin column 2, row 1.
C2_OriginAfterParenthesis ==
  (calls >= 1 /\ pc # "failed") =>
    LET toks == Tokens
    IN  /\ \A i \in DOMAIN rooms : \E j \in DOMAIN toks :
             /\ toks[j].name = rooms[i].name
             /\ rooms[i].y = toks[j].pos[1]
             /\ rooms[i].x = toks[j].pos[2] + 1
        /\ lines = ExamplePlan => (Len(rooms) = 1 /\ Origin(1) = <<2, 1>>)

\* C2 amended: a room's origin is the cell of the opening parenthesis of its
\* token (the token's start column and row); the example plan gives exactly
\* one room, A, with origin column 1, row 1 and all counts zero.
C2_OriginAtParenthesis ==
  (calls >= 1 /\ pc # "failed") =>
    LET toks == Tokens
    IN  /\ \A i \in DOMAIN rooms : \E j \in DOMAIN toks :
             /\ toks[j].name = rooms[i].name
             /\ rooms[i].y = toks[j].pos[1]
             /\ rooms[i].x = toks[j].pos[2]
             /\ At(lines, Origin(i)) = "("
        /\ lines = ExamplePlan =>
             /\ Len(rooms) = 1
             /\ rooms[1].name = <<"A">>
             /\ Origin(1) = <<1, 1>>
             /\ pc = "done" => rooms[1].chairs = ZeroChairs

C2_Witness ==
  /\ lines = ExamplePlan
  /\ pc = "done"
  /\ Len(rooms) = 1

(***************************************************************************)
(* C3  The value a second find_rooms call returns.                         *)
(***************************************************************************)
\* C3 as stated: a second find_rooms call after a successful first one
\* returns an empty sequence.
C3_SecondCallReturnsEmpty ==
  (calls >= 2 /\ pc # "failed") => returned = <<>>

\* C3 amended: a second find_rooms call after a successful first one finds
\* no new room and returns the plan's room list, which is the sequence the
\* first call returned (empty only if the first call found no room).
C3_SecondCallReturnsSameRooms ==
  [][(calls >= 1 /\ calls' = calls + 1) =>
       (pc' = "located" /\ returned' = returned /\ returned' = rooms')]_vars

C3_Witness ==
  /\ calls >= 2
  /\ pc = "located"
  /\ returned # <<>>

(***************************************************************************)
(* C4  A second find_rooms call registers nothing and leaves the grid.     *)
(***************************************************************************)
\* C4: a second find_rooms call on an already-processed plan leaves the room
\* list as it was (same rooms, same order, no name twice) and does not
\* change the grid.
C4_SecondCallChangesNothing ==
  [][(calls >= 1 /\ calls' = calls + 1) =>
       /\ rooms' = rooms
       /\ plan' = plan
       /\ \A i, j \in DOMAIN rooms' : rooms'[i].name = rooms'[j].name => i = j]_vars

C4_Witness ==
  /\ calls >= 2
  /\ Len(rooms) = 2
  /\ plan # lines

(***************************************************************************)
(* C5  What is erased when find_rooms fails.                               *)
(***************************************************************************)
SpanBlank(p, tok) ==
  \A c \in (tok.pos[2] + 1)..tok.end : p[tok.pos[1] + 1][c] = " "

\* C5 as stated: when find_rooms fails at some token, every token before it
\* in scan order, earlier tokens of the failing row included, is already
\* overwritten with spaces in the grid.
C5_EarlierTokensErased ==
  pc = "failed" =>
    LET toks == Tokens
    IN  \A j \in 1..(FirstBad(toks) - 1) : SpanBlank(plan, toks[j])

\* C5 amended: when find_rooms fails at some token, every token on a row
\* above the failing token's row is overwritten with spaces, and the failing
\* row and the rows below it are exactly as in the input, so earlier tokens
\* of the failing row are not erased.
C5_EarlierRowsErased ==
  pc = "failed" =>
    LET toks == Tokens
        bad == FirstBad(toks)
        E == Erased
    IN  /\ bad # 0
        /\ err.at = toks[bad].pos
        /\ \A r \in DOMAIN plan :
             plan[r] = IF r - 1 < err.at[1] THEN E[r] ELSE lines[r]

\* a failure on the second row, not at the first token of that row, with a
\* token erased on the first row
C5_Witness ==
  /\ pc = "failed"
  /\ err.at[1] = 1
  /\ err.at[2] > 0
  /\ \E j \in 1..(FirstBad(Tokens) - 1) : Tokens[j].pos[1] = 1
  /\ plan[1] # lines[1]

(***************************************************************************)
(* C6  Duplicate names.                                                    *)
(***************************************************************************)
\* C6 as stated: if two tokens of the grid have the same trimmed name,
\* find_rooms fails with a duplicate-name error raised at the later token
\* that reports the duplicate's position and the original's position.
C6_DuplicateReportsBothPositions ==
  calls >= 1 =>
    LET toks == Tokens
        rep == FirstRepeat(toks)
    IN  rep # 0 =>
          /\ pc = "failed"
          /\ err.kind = "duplicate"
          /\ err.at = toks[rep].pos
          /\ toks[rep].pos \in Range(err.reported)
          /\ toks[Original(toks, rep)].pos \in Range(err.reported)

\* C6 amended: if two tokens have the same non-empty trimmed name,
\* find_rooms fails; unless an empty-name token comes earlier in scan order,
\* the failure is a duplicate-name error raised at the first token whose
\* trimmed name was already registered, and it reports the name and the
\* position of the original token only, not the duplicate's position.
C6_DuplicateReportsOriginal ==
  calls >= 1 =>
    LET toks == Tokens
        rep == FirstRepeat(toks)
        bad == FirstBad(toks)
    IN  rep # 0 =>
          /\ pc = "failed"
          /\ bad = rep =>
               /\ err.kind = "duplicate"
               /\ err.at = toks[rep].pos
               /\ err.name = toks[rep].name
               /\ err.reported = <<toks[Original(toks, rep)].pos>>
               /\ err.at \notin Range(err.reported)
          /\ bad # rep =>
               /\ err.kind = "empty"
               /\ err.at = toks[bad].pos

\* a duplicate found by trimming: the two tokens differ as written
C6_Witness ==
  /\ pc = "failed"
  /\ err.kind = "duplicate"
  /\ LET toks == Tokens
         rep == FirstRepeat(toks)
     IN  /\ rep # 0
         /\ toks[rep].inner # toks[Original(toks, rep)].inner
         /\ err.reported = <<toks[Original(toks, rep)].pos>>

(***************************************************************************)
(* C7  Empty names.                                                        *)
(***************************************************************************)
\* C7: if some token's inner text is empty after trimming, find_rooms fails
\* instead of returning rooms; the failure is the empty-name error, raised
\* at the first such token, unless a duplicate name comes earlier in scan
\* order, and then it is the duplicate-name error.
C7_EmptyNameFails ==
  calls >= 1 =>
    LET toks == Tokens
        bad == FirstBad(toks)
    IN  (\E j \in DOMAIN toks : toks[j].name = <<>>) =>
          /\ pc = "failed"
          /\ rooms = <<>>
          /\ returned = <<>>
          /\ toks[bad].name = <<>> =>
               /\ err.kind = "empty"
               /\ err.at = toks[bad].pos
               /\ err.reported = <<err.at>>
               /\ \A k \in 1..(bad - 1) : toks[k].name # <<>>
          /\ toks[bad].name # <<>> => err.kind = "duplicate"

\* an empty-name failure at a token whose inner text is blank, after an
\* earlier token was registered
C7_Witness ==
  /\ pc = "failed"
  /\ err.kind = "empty"
  /\ LET toks == Tokens
         bad == FirstBad(toks)
     IN  bad > 1 /\ toks[bad].inner # <<>>

(***************************************************************************)
(* C8  The grid after the whole run.                                       *)
(***************************************************************************)
\* C8 as stated: after the whole run every cell reachable from some room's
\* origin through open cells holds the visited sentinel and every cell that
\* held a wall character in the input still holds it.
C8_InputWallsKept ==
  pc = "done" =>
    LET all == AllRegions(Erased)
    IN  /\ \A xy \in all : At(plan, xy) = VISITED
        /\ \A xy \in Cells(lines) :
             At(lines, xy) \in WallSet => At(plan, xy) = At(lines, xy)

\* C8 amended: after the whole run every cell reachable from some room's
\* origin through open cells of the erased grid holds the visited sentinel,
\* and every cell that holds a wall character after name erasure (a wall
\* character of the input outside every name token) still holds it; a wall
\* character inside a name token is blanked with the token.
C8_ErasedWallsKept ==
  pc = "done" =>
    LET E == Erased
        all == AllRegions(E)
    IN  /\ \A xy \in all : At(plan, xy) = VISITED
        /\ \A xy \in Cells(lines) :
             At(E, xy) \in WallSet => At(plan, xy) = At(lines, xy)
        /\ \A xy \in Cells(lines) : xy \notin all => At(plan, xy) = At(E, xy)

\* a wall next to a visited cell, and a chair behind it that stays
C8_Witness ==
  /\ pc = "done"
  /\ \E w, v, u \in Cells(plan) :
       /\ At(plan, w) \in WallSet
       /\ At(plan, v) = VISITED
       /\ At(plan, u) \in ChairSet
       /\ Adjacent(w, v)
       /\ Adjacent(w, u)

(***************************************************************************)
(* C9  Queue entries of one find_chairs run.                               *)
(***************************************************************************)
\* C9 as stated: during one find_chairs run every coordinate is appended to
\* the queue at most once.
C9_AppendedAtMostOnce ==
  \A xy \in Range(appendLog) : Occurrences(appendLog, xy) <= 1

\* C9 amended: during one find_chairs run every coordinate is processed
\* (tallied and marked) at most once; it can be appended to the queue more
\* than once, once for each orthogonal neighbour processed before it is
\* marked, so at most four times, and every entry after the first one
\* processed is skipped when it is dequeued.
C9_ProcessedAtMostOnce ==
  /\ \A xy \in Range(visitLog) : Occurrences(visitLog, xy) <= 1
  /\ \A xy \in Range(appendLog) :
       /\ Occurrences(appendLog, xy) <= 4
       /\ Occurrences(appendLog, xy) <=
            1 + Cardinality({v \in Range(visitLog) : Adjacent(v, xy)})

\* a finished run in which some coordinate was appended twice
C9_Witness ==
  /\ pc = "done"
  /\ \E xy \in Range(appendLog) :
       /\ Occurrences(appendLog, xy) = 2
       /\ Occurrences(visitLog, xy) = 1

(***************************************************************************)
(* C10  Termination of find_chairs.                                        *)
(***************************************************************************)
\* C10: for every grid, ragged or not, and every origin, in bounds or not,
\* find_chairs terminates: the queue becomes empty and the loop exits.
C10_FillTerminates == <>(pc = "done" /\ q = <<>>)

\* a finished run from an origin outside the grid that visited cells of it
C10_Witness ==
  /\ pc = "done"
  /\ ~InBounds(lines, Origin(1)[1], Origin(1)[2])
  /\ Len(visitLog) >= 3

(***************************************************************************)
(* C11  At every point of main's loop, and after it, the total's count of  *)
(* every chair type is the sum of that type's counts over the rooms whose  *)
(* find_chairs has returned and been accumulated; once main is done these  *)
(* are all the rooms.                                                      *)
(***************************************************************************)
RECURSIVE SumOver(_, _, _)
SumOver(rs, n, t) == IF n = 0 THEN 0 ELSE rs[n].chairs[t] + SumOver(rs, n - 1, t)

C11_TotalIsSumOfRooms ==
  /\ \A t \in ChairSet : total[t] = SumOver(rooms, idx, t)
  /\ pc = "done" => \A t \in ChairSet : total[t] = SumOver(rooms, Len(rooms), t)

\* main is done with two rooms that both counted a chair of the same type
C11_Witness ==
  /\ pc = "done"
  /\ Len(rooms) = 2
  /\ \E t \in ChairSet : rooms[1].chairs[t] > 0 /\ rooms[2].chairs[t] > 0

(***************************************************************************)
(* C12  For the plan of two rooms separated by a wall, each holding one    *)
(* chair of every type, main ends with two rooms that count 1 for every    *)
(* type and a total of 4 for every type (as stated), of 2 for every type   *)
(* (as the code computes it).                                              *)
(***************************************************************************)
OneOfEachPerRoom ==
  /\ Len(rooms) = 2
  /\ \A i \in 1..2 : \A t \in ChairSet : rooms[i].chairs[t] = 1

C12_TotalIsFour ==
  (lines = ExampleTwoRooms /\ pc = "done") =>
    (OneOfEachPerRoom /\ \A t \in ChairSet : total[t] = 4)

C12_TotalIsTwo ==
  (lines = ExampleTwoRooms /\ pc = "done") =>
    (OneOfEachPerRoom /\ \A t \in ChairSet : total[t] = 2)

C12_Witness == lines = ExampleTwoRooms /\ pc = "done" /\ idx = 2

(***************************************************************************)
(* C13  The sequence a find_rooms call returns is in ascending order of    *)
(* the room names (strings compared by code point), whatever the rows and  *)
(* columns of the tokens: a token lower or further right can come first.   *)
(***************************************************************************)
\* a is a proper prefix of b, or has the smaller character where they first differ
Before(a, b) ==
  \E k \in 1..Len(b) :
    /\ \A j \in 1..(k - 1) : j <= Len(a) /\ a[j] = b[j]
    /\ k > Len(a) \/ Ord(a[k]) < Ord(b[k])

C13_SortedByName ==
  (calls >= 1 /\ pc # "failed") =>
    \A i, j \in 1..Len(returned) : i < j => Before(returned[i].name, returned[j].name)

\* three rooms returned: the first from a lower row than the second, the
\* second from further right on its row than the third
C13_Witness ==
  /\ calls >= 1
  /\ pc = "located"
  /\ Len(returned) = 3
  /\ Len(returned[2].name) = 2
  /\ returned[1].y > returned[2].y
  /\ returned[2].y = returned[3].y
  /\ returned[2].x > returned[3].x

(***************************************************************************)
(* C14  When find_rooms has returned and no find_chairs has run yet, the   *)
(* grid has the rows of the input, each of its input length; a cell holds  *)
(* a space if it lies in the span of a name token (parentheses included)   *)
(* and its input character otherwise.  For an input without name tokens    *)
(* the grid is the input and no room is registered or returned.            *)
(***************************************************************************)
InSpan(toks, r, c) ==
  \E j \in DOMAIN toks :
    toks[j].pos[1] = r - 1 /\ toks[j].pos[2] < c /\ c <= toks[j].end

C14_ExactlySpansErased ==
  (calls >= 1 /\ pc = "located" /\ idx = 0) =>
    LET toks == Tokens
    IN  /\ Len(plan) = Len(lines)
        /\ \A r \in DOMAIN lines :
             /\ Len(plan[r]) = Len(lines[r])
             /\ \A c \in DOMAIN lines[r] :
                  plan[r][c] = IF InSpan(toks, r, c) THEN " " ELSE lines[r][c]
        /\ toks = <<>> => (plan = lines /\ rooms = <<>> /\ returned = <<>>)

\* find_rooms returned for a row with two tokens and other cells around them
C14_Witness ==
  /\ calls = 1
  /\ pc = "located"
  /\ idx = 0
  /\ \E r \in DOMAIN lines :
       /\ Len(Matches(lines[r], 0)) = 2
       /\ \E c \in DOMAIN lines[r] : plan[r][c] # " "

(***************************************************************************)
(* C15  A _get with y outside 0..rowCount-1, or with x outside the row y,  *)
(* negative values included, returns None; a _set with such coordinates    *)
(* leaves the whole grid as it was.  Rows may differ in length.            *)
(***************************************************************************)
Inside(p, x, y) ==
  /\ y \in 0..(Len(p) - 1)
  /\ x \in 0..(Len(p[y + 1]) - 1)

C15_OutsideIsAbsentAndUntouched ==
  (pc = "accessed" /\ ~Inside(access.before, access.x, access.y)) =>
    /\ access.got = None
    /\ plan = access.before
    /\ plan = lines

\* a _set on the first row of a ragged grid, at a column the first row
\* does not have and the second row has
C15_Witness ==
  /\ pc = "accessed"
  /\ access.op = "set"
  /\ Len(lines) = 2
  /\ access.y = 0
  /\ Len(lines[1]) <= access.x
  /\ access.x < Len(lines[2])

(***************************************************************************)
(* C16  A _set(x, y, v) inside the grid puts v at (x, y), so that          *)
(* _get(x, y) returns v, and keeps the number of rows, the length of every *)
(* row and every other cell.                                               *)
(***************************************************************************)
C16_SetChangesOneCell ==
  (pc = "accessed" /\ access.op = "set" /\ Inside(access.before, access.x, access.y)) =>
    /\ access.got = access.value
    /\ Len(plan) = Len(access.before)
    /\ \A r \in DOMAIN plan :
         /\ Len(plan[r]) = Len(access.before[r])
         /\ \A c \in DOMAIN plan[r] :
              plan[r][c] = IF r = access.y + 1 /\ c = access.x + 1
                             THEN access.value
                             ELSE access.before[r][c]

\* a cell in the middle of the second row got a new character
C16_Witness ==
  /\ pc = "accessed"
  /\ access.op = "set"
  /\ access.y = 1
  /\ access.x = 1
  /\ Len(lines) = 2
  /\ Len(lines[2]) = 3
  /\ lines[2][2] # access.value
  /\ plan # lines

(***************************************************************************)
(* C17  Over the find_chairs runs of all rooms, one after another on the   *)
(* same grid, no cell is processed (tallied and marked) twice; for every   *)
(* chair type the counts of all rooms together never exceed the number of  *)
(* cells holding that type once the names are erased; and when main is     *)
(* done, of the rooms whose origins lie in one open region the one filled  *)
(* first has all the chairs of the region and every later one has none.    *)
(***************************************************************************)
\* the number of cells of the input that hold t and lie in no token span:
\* the cells that hold t once the names are erased
OutsideSpans(toks, t) ==
  Cardinality({rc \in UNION {{<<r, c>> : c \in DOMAIN lines[r]} : r \in DOMAIN lines} :
                 lines[rc[1]][rc[2]] = t /\ ~InSpan(toks, rc[1], rc[2])})

C17_EachCellProcessedOnce ==
  LET toks == Tokens
  IN  /\ \A k, l \in DOMAIN allVisits : k # l => allVisits[k] # allVisits[l]
      /\ \A t \in ChairSet :
           LET n == SumOver(rooms, Len(rooms), t)
           IN  n > 0 => n <= OutsideSpans(toks, t)
      /\ pc = "done" =>
           LET E == Erased
               regs == [i \in DOMAIN rooms |-> Region(E, Origin(i))]
           IN  \A i, j \in DOMAIN rooms :
                 (i < j /\ Origin(j) \in regs[i]) =>
                   /\ rooms[j].chairs = ZeroChairs
                   /\ (\A k \in 1..(i - 1) : Origin(k) \notin regs[i]) =>
                        \A t \in ChairSet : rooms[i].chairs[t] = CountIn(E, regs[i], t)

\* two rooms in one open region with chairs: the first has them all
C17_Witness ==
  /\ pc = "done"
  /\ Len(rooms) = 2
  /\ Origin(2) \in Region(Erased, Origin(1))
  /\ rooms[1].chairs["W"] = 2
  /\ rooms[2].chairs = ZeroChairs
  /\ Len(allVisits) > 4

(***************************************************************************)
(* C18  A find_chairs run for a room whose find_chairs has already         *)
(* returned changes nothing, from its call to its return: its queue holds  *)
(* the origin alone, the origin reads as the visited sentinel and is       *)
(* dropped without being processed, and the grid, every room's tally and   *)
(* the total stay as they were.                                            *)
(***************************************************************************)
C18_RerunChangesNothing ==
  [][ /\ (pc = "refilling" \/ pc' = "refilling") =>
           /\ plan' = plan
           /\ rooms' = rooms
           /\ returned' = returned
           /\ total' = total
           /\ allVisits' = allVisits
      /\ (pc = "refilling" /\ q # <<>>) =>
           /\ q = <<Origin(cur)>>
           /\ At(plan, Origin(cur)) = VISITED
           /\ q' = <<>>
           /\ visitLog' = <<>> ]_vars

\* the second run for a room that counted chairs has dropped the origin,
\* while another room is still to be filled
C18_Witness ==
  /\ pc = "refilling"
  /\ q = <<>>
  /\ idx < Len(rooms)
  /\ \E t \in ChairSet : rooms[cur].chairs[t] > 0

(***************************************************************************)
(* C19  The letters of a room name are never counted.  Once find_rooms has *)
(* returned, every cell in the span of a name token holds a space or the   *)
(* visited sentinel, and a find_chairs step that processes a cell of a     *)
(* token span changes no room's tally; the total never exceeds, for any    *)
(* type, the number of cells holding it outside the token spans.           *)
(***************************************************************************)
Last(s) == s[Len(s)]

C19_NameLettersNotCounted ==
  [][ LET toks == Tokens
      IN  /\ pc' \in {"located", "filling", "done"} =>
               /\ \A r \in DOMAIN lines : \A c \in DOMAIN lines[r] :
                    InSpan(toks, r, c) => plan'[r][c] \in {" ", VISITED}
               /\ \A t \in ChairSet : total'[t] <= OutsideSpans(toks, t)
          /\ (allVisits' # allVisits
                /\ InSpan(toks, Last(allVisits')[2] + 1, Last(allVisits')[1] + 1)) =>
               rooms' = rooms ]_vars

\* main is done; the W in the name of room W was processed as a space, the
\* only W counted is the one outside the name
C19_Witness ==
  /\ pc = "done"
  /\ Len(lines) = 1
  /\ InSpan(Tokens, 1, 2)
  /\ lines[1][2] = "W"
  /\ <<1, 0>> \in Range(allVisits)
  /\ OutsideSpans(Tokens, "W") = 1
  /\ total["W"] = 1

(***************************************************************************)
(* C20  A find_rooms call that raises (empty or duplicate name) registers  *)
(* no room: Plan.rooms after the call is Plan.rooms before it, also when   *)
(* names were matched and rows erased before the failing token.            *)
(***************************************************************************)
C20_FailureRegistersNothing ==
  [][ pc' = "failed" => (rooms' = rooms /\ returned' = returned) ]_vars

\* the call failed at a later token, after a row above it was erased
C20_Witness ==
  /\ pc = "failed"
  /\ FirstBad(Tokens) > 1
  /\ plan # lines
  /\ rooms = <<>>

====
